---- MODULE Spec2Model ----
(***************************************************************************)
(* LockFreeQueue<T, Capacity>: the bounded MPMC ring buffer (Vyukov queue) *)
(* of lock_free_queue.h.  Every atomic load, store and compare-exchange of *)
(* try_push / try_pop is one step of the calling thread; the cursors and   *)
(* the cells' sequence counters are shared.  Atomics are modelled as       *)
(* sequentially consistent; an access to cell->data that is not ordered    *)
(* with another thread's access to the same cell may yield a torn value.   *)
(***************************************************************************)
EXTENDS Integers, Sequences, FiniteSets, TLC

\* ------------------------------------------------------------------ bounds
\* Width of size_t / intptr_t in the model (the build has 64).
WordBits == 6
\* Capacities the static_assert admits that are instantiated in the model.
MaxCapacityLog == 2
\* Threads calling try_push / try_pop concurrently.
NThreads == 2
\* Payload values 1..MaxVal of the single-threaded specifications.
MaxVal == 2
\* Calls started in the concurrent specifications.
MaxCalls == 4
\* Calls started in the specification of the capacities the tests use.
MaxCallsTested == 5
\* Spurious failures of compare_exchange_weak per call.
MaxSpurious == 1
\* Worker threads of the ThreadPool (num_threads).
NWorkers == 2
\* Threads calling submit_task / shutdown on the pool.
NClients == 2
\* Tasks submitted to the pool.
NTasks == 3
\* Largest size a Vector is grown to.
MaxSize == 3
\* Largest capacity passed to Vector(size_t capacity).
MaxInitialCapacity == 2
\* Objects the program allocates with new.
NObjects == 3

\* --------------------------------------------------------------- constants
Modulus == 2 ^ WordBits
Threads == 1 .. NThreads
Values == 1 .. MaxVal
\* Content of a cell's data before any try_push stored into it.
NoValue == 0
\* Outcome of an access to cell->data that races with another thread's.
Torn == -1

VARIABLES
    Capacity,        \* template parameter
    enqueue_index_,  \* std::atomic<size_t>
    dequeue_index_,  \* std::atomic<size_t>
    seq,             \* buffer_[i].seq
    data,            \* buffer_[i].data
    pc,              \* where each thread is in try_push / try_pop
    current_pos,     \* local of the call
    item,            \* the call's item parameter
    ret,             \* what the thread's last call returned
    spurious,        \* spurious CAS failures in the thread's current call
    pushed,          \* values of the try_push calls that returned true
    popped,          \* values returned by the try_pop calls that returned true
    claimed,         \* value of the try_push that claimed each position
    thrown,          \* positions whose try_push left by an exception
    calls,           \* calls started
    ref,             \* reference bounded FIFO fed the same calls
    refRet,          \* what the reference returned for the last call
    refOut,          \* value the reference popped in the last call
    solo,            \* thread running alone, all others suspended (0: none)
    instantiation,   \* how far LockFreeQueue<T, Capacity> got in the build
    is_shutdown_,    \* std::atomic<bool>
    stop_requested,  \* stop state of each std::jthread of thread_workers_
    task_queue_,     \* std::queue<std::function<void()>>, as task numbers
    mutex_,          \* worker holding the std::mutex (0: nobody)
    cv_,             \* workers blocked in cv_.wait
    wpc,             \* where each worker is in worker()
    task,            \* worker()'s local task (0: empty std::function)
    future,          \* shared state behind the future of each task
    fn,              \* what the callable submitted as each task does
    runs,            \* how many times each task's callable was invoked
    cpc,             \* where each client is in submit_task / shutdown
    ctask,           \* the packaged_task of the client's submit_task call
    thread,          \* loop variable of shutdown()'s for loop
    destroying,      \* ~ThreadPool() has been entered
    accepted,        \* tasks in the order submit_task queued them
    dequeued,        \* tasks in the order workers took them, and who did
    finished,        \* tasks in the order their invocation returned
    data_,           \* T *data_ of each Vector (0: nullptr)
    size_,           \* size_t size_ of each Vector
    capacity_,       \* size_t capacity_ of each Vector
    heap,            \* the blocks malloc has handed out and their cells
    alive,           \* the Vector objects whose lifetime has begun
    list,            \* reference list of each Vector
    last,            \* what the last Vector member function call was
    value_type,      \* the T of Vector<T>
    header,          \* the revision of unique_ptr.h that is built
    ptr_,            \* T *data_ of each UniquePtr (0: nullptr)
    living,          \* the UniquePtr objects whose lifetime has begun
    object,          \* who answers for each object made by new
    deleted,         \* how many times the deleter was invoked on each object
    call             \* what the last UniquePtr member function call was

qvars == <<Capacity, enqueue_index_, dequeue_index_, seq, data, pc,
           current_pos, item, ret, spurious>>
hvars == <<pushed, popped, calls, claimed, thrown>>
rvars == <<ref, refRet, refOut>>
\* State outside the queue's fields and the histories of its calls.
pvars == <<is_shutdown_, stop_requested, task_queue_, mutex_, cv_, wpc, task,
           future, fn, runs, cpc, ctask, thread, destroying, accepted,
           dequeued, finished>>
vvars == <<data_, size_, capacity_, heap, alive>>
lvars == <<list, last>>
tvars == <<value_type>>
uvars == <<header, ptr_, living, object, deleted, call>>
elsewhere == <<instantiation, pvars, vvars, lvars, tvars, uvars>>
vars == <<qvars, hvars, rvars, solo, elsewhere>>

\* ---------------------------------------------------------- word arithmetic
\* size_t arithmetic wraps modulo 2^WordBits.
Wrap(x) == x % Modulus

\* (intptr_t)a - (intptr_t)b
SignedDiff(a, b) ==
    LET d == (a - b) % Modulus
    IN  IF d >= Modulus \div 2 THEN d - Modulus ELSE d

RECURSIVE BitAnd(_, _)
\* a & b on naturals
BitAnd(a, b) ==
    IF a = 0 \/ b = 0 THEN 0
    ELSE (a % 2) * (b % 2) + 2 * BitAnd(a \div 2, b \div 2)

\* static_assert((Capacity & (Capacity - 1)) == 0)
StaticAssertHolds(c) == BitAnd(c, Wrap(c - 1)) = 0

Capacities == {c \in 1 .. 2 ^ MaxCapacityLog : StaticAssertHolds(c)}

\* MASK = Capacity - 1
MASK == Capacity - 1

\* &buffer_[current_pos & MASK]
CellOf(pos) == BitAnd(pos, MASK)

\* ----------------------------------------------------------------- helpers
OwnerPcs == {"push_write", "push_publish", "pop_read", "pop_republish"}

\* Another thread is between winning a cursor CAS and storing the sequence
\* counter of cell c: its access to the cell's data is unordered with t's.
Races(t, c) ==
    \E u \in Threads \ {t} : pc[u] \in OwnerPcs /\ CellOf(current_pos[u]) = c

\* return r; the call's locals die with it
Return(t, r) ==
    /\ pc' = [pc EXCEPT ![t] = "idle"]
    /\ ret' = [ret EXCEPT ![t] = r]
    /\ current_pos' = [current_pos EXCEPT ![t] = 0]
    /\ spurious' = [spurious EXCEPT ![t] = 0]

\* -------------------------------------------------------------------- Init
\* LockFreeQueue(): seq[i] = i, both cursors 0.
InitQueue ==
    /\ Capacity \in Capacities
    /\ enqueue_index_ = 0
    /\ dequeue_index_ = 0
    /\ seq = [i \in 0 .. Capacity - 1 |-> i]
    /\ data = [i \in 0 .. Capacity - 1 |-> NoValue]
    /\ pc = [t \in Threads |-> "idle"]
    /\ current_pos = [t \in Threads |-> 0]
    /\ item = [t \in Threads |-> NoValue]
    /\ ret = [t \in Threads |-> "none"]
    /\ spurious = [t \in Threads |-> 0]
    /\ instantiation = "constructed"

InitHistory ==
    /\ pushed = <<>>
    /\ popped = <<>>
    /\ calls = 0
    /\ claimed = <<>>
    /\ thrown = {}

InitReference ==
    /\ ref = <<>>
    /\ refRet = "none"
    /\ refOut = NoValue

\* ------------------------------------------------------------- ThreadPool
Workers == 1 .. NWorkers
Clients == 1 .. NClients
TaskIds == 1 .. NTasks
\* The thread that constructed the pool and runs its destructor.
Owner == 1

\* Shared state of a future: not ready, a value, or an exception.
Pending == [state |-> "pending", value |-> 0]
Ready(v) == [state |-> "value", value |-> v]
Thrown(what) == [state |-> what, value |-> 0]

\* What invoking the callable of task k produces.
Result(k) == k * k
Outcome(k) == IF fn[k] = "throws" THEN Thrown("task exception")
              ELSE Ready(Result(k))

\* ThreadPool(num_threads): the workers are started, nothing is queued.
InitPool ==
    /\ is_shutdown_ = FALSE
    /\ stop_requested = [w \in Workers |-> FALSE]
    /\ task_queue_ = <<>>
    /\ mutex_ = 0
    /\ cv_ = {}
    /\ wpc = [w \in Workers |-> "loop"]
    /\ task = [w \in Workers |-> 0]
    /\ future = [k \in TaskIds |-> Pending]
    /\ fn = [k \in TaskIds |-> "none"]
    /\ runs = [k \in TaskIds |-> 0]
    /\ cpc = [c \in Clients |-> "idle"]
    /\ ctask = [c \in Clients |-> 0]
    /\ thread = [c \in Clients |-> 0]
    /\ destroying = FALSE
    /\ accepted = <<>>
    /\ dequeued = <<>>
    /\ finished = <<>>

\* ------------------------------------------------------------------ Vector
\* The Vector<T> objects of the program.
Vectors == {"a", "b"}
\* The element types the tests copy Vectors of.
ValueTypes == {"int", "std::string"}
\* std::is_trivially_copyable_v<T>
TriviallyCopyable == value_type = "int"
\* Addresses malloc can return: one block per Vector and one for the
\* temporary of an assignment or the new_data of reallocate.
Blocks == 1 .. Cardinality(Vectors) + 1
\* A cell of a block that holds no constructed T.
Raw == 0
Unallocated == [live |-> FALSE, cells |-> <<>>]
NoCall == "none"

\* No Vector<T> has been constructed yet.
InitVectorOf(T) ==
    /\ value_type = T
    /\ data_ = [v \in Vectors |-> 0]
    /\ size_ = [v \in Vectors |-> 0]
    /\ capacity_ = [v \in Vectors |-> 0]
    /\ heap = [b \in Blocks |-> Unallocated]
    /\ alive = [v \in Vectors |-> FALSE]
    /\ list = [v \in Vectors |-> <<>>]
    /\ last = NoCall

InitVector == InitVectorOf("int")

\* --------------------------------------------------------------- UniquePtr
\* The UniquePtr<T> objects of the program.
UniquePtrs == {"ptr1", "ptr2"}
\* The objects the program makes with new; 0 is nullptr.
Objects == 1 .. NObjects
\* The two revisions of unique_ptr.h: the one without swap() and without the
\* self-reset guard, and the one with both.
Headers == {"include/stl/unique_ptr.h", "unnamed/part_002"}

\* No UniquePtr has been constructed and nothing was allocated yet.
InitUniqueOf(h) ==
    /\ header = h
    /\ ptr_ = [u \in UniquePtrs |-> 0]
    /\ living = [u \in UniquePtrs |-> FALSE]
    /\ object = [o \in Objects |-> "unallocated"]
    /\ deleted = [o \in Objects |-> 0]
    /\ call = "none"

InitUnique == InitUniqueOf("unnamed/part_002")

Init ==
    /\ InitQueue /\ InitHistory /\ InitReference /\ solo = 0 /\ InitPool
    /\ InitVector /\ InitUnique

\* diff of try_push: (intptr_t)seq - (intptr_t)(current_pos)
PushDiff(pos) == SignedDiff(seq[CellOf(pos)], pos)

\* A diff of try_pop taken against current_pos, as try_push takes it.
PopDiffAsPush(pos) == SignedDiff(seq[CellOf(pos)], pos)

\* diff of try_pop: (intptr_t)seq - (intptr_t)(current_pos + 1)
PopDiff(pos) == SignedDiff(seq[CellOf(pos)], Wrap(pos + 1))

\* ---------------------------------------------------------------- try_push
\* size_t current_pos = enqueue_index_.load(relaxed);
PushBegin(t, v) ==
    /\ pc[t] = "idle"
    /\ item' = [item EXCEPT ![t] = v]
    /\ current_pos' = [current_pos EXCEPT ![t] = enqueue_index_]
    /\ pc' = [pc EXCEPT ![t] = "push_seq"]
    /\ ret' = [ret EXCEPT ![t] = "none"]
    /\ UNCHANGED <<Capacity, enqueue_index_, dequeue_index_, seq, data,
                   spurious>>

\* seq = cell->seq.load(acquire); diff = seq - current_pos; branch on diff
PushLoadSeq(t) ==
    /\ pc[t] = "push_seq"
    /\ LET diff == PushDiff(current_pos[t])
       IN  IF diff = 0
           THEN /\ pc' = [pc EXCEPT ![t] = "push_cas"]
                /\ UNCHANGED <<ret, current_pos, spurious>>
           ELSE IF diff < 0
           THEN Return(t, "false")
           ELSE /\ pc' = [pc EXCEPT ![t] = "push_reload"]
                /\ UNCHANGED <<ret, current_pos, spurious>>
    /\ UNCHANGED <<Capacity, enqueue_index_, dequeue_index_, seq, data, item>>

\* A plain store of current_pos + 1 in place of the compare-exchange.
PushCASBlind(t) ==
    /\ pc[t] = "push_cas"
    /\ enqueue_index_' = Wrap(current_pos[t] + 1)
    /\ pc' = [pc EXCEPT ![t] = "push_write"]
    /\ UNCHANGED <<Capacity, dequeue_index_, seq, data, current_pos, item,
                   ret, spurious>>

\* enqueue_index_.compare_exchange_weak(current_pos, current_pos + 1)
PushCAS(t) ==
    /\ pc[t] = "push_cas"
    /\ IF enqueue_index_ = current_pos[t]
       THEN /\ enqueue_index_' = Wrap(current_pos[t] + 1)
            /\ pc' = [pc EXCEPT ![t] = "push_write"]
            /\ current_pos' = current_pos
       ELSE /\ enqueue_index_' = enqueue_index_
            /\ pc' = [pc EXCEPT ![t] = "push_seq"]
            /\ current_pos' = [current_pos EXCEPT ![t] = enqueue_index_]
    /\ UNCHANGED <<Capacity, dequeue_index_, seq, data, item, ret, spurious>>

\* compare_exchange_weak fails although the cursor equals current_pos
PushCASSpurious(t) ==
    /\ pc[t] = "push_cas"
    /\ enqueue_index_ = current_pos[t]
    /\ spurious[t] < MaxSpurious
    /\ spurious' = [spurious EXCEPT ![t] = @ + 1]
    /\ pc' = [pc EXCEPT ![t] = "push_seq"]
    /\ UNCHANGED <<Capacity, enqueue_index_, dequeue_index_, seq, data,
                   current_pos, item, ret>>

\* current_pos = enqueue_index_.load(relaxed);   (diff > 0)
PushReload(t) ==
    /\ pc[t] = "push_reload"
    /\ current_pos' = [current_pos EXCEPT ![t] = enqueue_index_]
    /\ pc' = [pc EXCEPT ![t] = "push_seq"]
    /\ UNCHANGED <<Capacity, enqueue_index_, dequeue_index_, seq, data,
                   item, ret, spurious>>

\* cell->data = T(std::forward<U>(item));
PushWrite(t) ==
    /\ pc[t] = "push_write"
    /\ LET c == CellOf(current_pos[t])
       IN  \E x \in (IF Races(t, c) THEN {item[t], Torn} ELSE {item[t]}) :
               data' = [data EXCEPT ![c] = x]
    /\ pc' = [pc EXCEPT ![t] = "push_publish"]
    /\ UNCHANGED <<Capacity, enqueue_index_, dequeue_index_, seq,
                   current_pos, item, ret, spurious>>

\* A store that throws and then publishes the cell all the same.
PushWriteThrowsPublishing(t) ==
    /\ pc[t] = "push_write"
    /\ seq' = [seq EXCEPT ![CellOf(current_pos[t])] = Wrap(current_pos[t] + 1)]
    /\ Return(t, "threw")
    /\ UNCHANGED <<Capacity, enqueue_index_, dequeue_index_, data, item>>

\* cell->data = T(std::forward<U>(item)); throws: the exception leaves
\* try_push, which has no handler, before the store to cell->seq.
PushWriteThrows(t) ==
    /\ pc[t] = "push_write"
    /\ Return(t, "threw")
    /\ UNCHANGED <<Capacity, enqueue_index_, dequeue_index_, seq, data, item>>

\* A publication that lands in the cell after the claimed one.
PushPublishNextCell(t) ==
    /\ pc[t] = "push_publish"
    /\ seq' = [seq EXCEPT ![CellOf(current_pos[t] + 1)] =
                              Wrap(current_pos[t] + 1)]
    /\ Return(t, "true")
    /\ UNCHANGED <<Capacity, enqueue_index_, dequeue_index_, data, item>>

\* cell->seq.store(current_pos + 1, release); return true;
PushPublish(t) ==
    /\ pc[t] = "push_publish"
    /\ seq' = [seq EXCEPT ![CellOf(current_pos[t])] = Wrap(current_pos[t] + 1)]
    /\ Return(t, "true")
    /\ UNCHANGED <<Capacity, enqueue_index_, dequeue_index_, data, item>>

\* ----------------------------------------------------------------- try_pop
\* size_t current_pos = dequeue_index_.load(relaxed);
PopBegin(t) ==
    /\ pc[t] = "idle"
    /\ current_pos' = [current_pos EXCEPT ![t] = dequeue_index_]
    /\ pc' = [pc EXCEPT ![t] = "pop_seq"]
    /\ ret' = [ret EXCEPT ![t] = "none"]
    /\ UNCHANGED <<Capacity, enqueue_index_, dequeue_index_, seq, data, item,
                   spurious>>

\* A try_pop whose empty branch resets the caller's output parameter.
PopLoadSeqClearing(t) ==
    /\ pc[t] = "pop_seq"
    /\ LET diff == PopDiff(current_pos[t])
       IN  IF diff = 0
           THEN /\ pc' = [pc EXCEPT ![t] = "pop_cas"]
                /\ UNCHANGED <<ret, current_pos, spurious, item>>
           ELSE IF diff < 0
           THEN /\ Return(t, "false")
                /\ item' = [item EXCEPT ![t] = NoValue]
           ELSE /\ pc' = [pc EXCEPT ![t] = "pop_reload"]
                /\ UNCHANGED <<ret, current_pos, spurious, item>>
    /\ UNCHANGED <<Capacity, enqueue_index_, dequeue_index_, seq, data>>

\* seq = cell->seq.load(acquire); diff = seq - (current_pos + 1); branch
PopLoadSeq(t) ==
    /\ pc[t] = "pop_seq"
    /\ LET diff == PopDiff(current_pos[t])
       IN  IF diff = 0
           THEN /\ pc' = [pc EXCEPT ![t] = "pop_cas"]
                /\ UNCHANGED <<ret, current_pos, spurious>>
           ELSE IF diff < 0
           THEN Return(t, "false")
           ELSE /\ pc' = [pc EXCEPT ![t] = "pop_reload"]
                /\ UNCHANGED <<ret, current_pos, spurious>>
    /\ UNCHANGED <<Capacity, enqueue_index_, dequeue_index_, seq, data, item>>

\* dequeue_index_.compare_exchange_weak(current_pos, current_pos + 1)
PopCAS(t) ==
    /\ pc[t] = "pop_cas"
    /\ IF dequeue_index_ = current_pos[t]
       THEN /\ dequeue_index_' = Wrap(current_pos[t] + 1)
            /\ pc' = [pc EXCEPT ![t] = "pop_read"]
            /\ current_pos' = current_pos
       ELSE /\ dequeue_index_' = dequeue_index_
            /\ pc' = [pc EXCEPT ![t] = "pop_seq"]
            /\ current_pos' = [current_pos EXCEPT ![t] = dequeue_index_]
    /\ UNCHANGED <<Capacity, enqueue_index_, seq, data, item, ret, spurious>>

\* compare_exchange_weak fails although the cursor equals current_pos
PopCASSpurious(t) ==
    /\ pc[t] = "pop_cas"
    /\ dequeue_index_ = current_pos[t]
    /\ spurious[t] < MaxSpurious
    /\ spurious' = [spurious EXCEPT ![t] = @ + 1]
    /\ pc' = [pc EXCEPT ![t] = "pop_seq"]
    /\ UNCHANGED <<Capacity, enqueue_index_, dequeue_index_, seq, data,
                   current_pos, item, ret>>

\* current_pos = dequeue_index_.load(relaxed);   (diff > 0)
PopReload(t) ==
    /\ pc[t] = "pop_reload"
    /\ current_pos' = [current_pos EXCEPT ![t] = dequeue_index_]
    /\ pc' = [pc EXCEPT ![t] = "pop_seq"]
    /\ UNCHANGED <<Capacity, enqueue_index_, dequeue_index_, seq, data,
                   item, ret, spurious>>

\* item = std::move(cell->data);
PopRead(t) ==
    /\ pc[t] = "pop_read"
    /\ LET c == CellOf(current_pos[t])
       IN  \E x \in (IF Races(t, c) THEN {data[c], Torn} ELSE {data[c]}) :
               item' = [item EXCEPT ![t] = x]
    /\ pc' = [pc EXCEPT ![t] = "pop_republish"]
    /\ UNCHANGED <<Capacity, enqueue_index_, dequeue_index_, seq, data,
                   current_pos, ret, spurious>>

\* cell->seq.store(current_pos + MASK + 1, release); return true;
PopRepublish(t) ==
    /\ pc[t] = "pop_republish"
    /\ seq' = [seq EXCEPT ![CellOf(current_pos[t])] =
                              Wrap(current_pos[t] + MASK + 1)]
    /\ Return(t, "true")
    /\ UNCHANGED <<Capacity, enqueue_index_, dequeue_index_, data, item>>

\* ------------------------------------------------- observation of the calls
\* The caller's bookkeeping of a step of thread t (as the tests keep it):
\* values pushed and popped by the calls that returned true, calls started,
\* the value of the try_push that took each position of the cursor, and the
\* positions of the calls that threw.
Observe(t, limit) ==
    /\ pc[t] = "idle" => calls < limit
    /\ calls' = IF pc[t] = "idle" THEN calls + 1 ELSE calls
    /\ pushed' = IF pc[t] = "push_publish" THEN Append(pushed, item[t])
                 ELSE pushed
    /\ popped' = IF pc[t] = "pop_republish" THEN Append(popped, item[t])
                 ELSE popped
    /\ claimed' = IF pc[t] = "push_cas" /\ enqueue_index_' # enqueue_index_
                  THEN Append(claimed, item[t])
                  ELSE claimed
    /\ thrown' = IF pc[t] = "push_write" /\ pc'[t] = "idle"
                 THEN thrown \cup {current_pos[t]}
                 ELSE thrown

\* A step of thread t in a concurrent run of at most limit calls.
Concurrent(t, limit) ==
    /\ solo = 0
    /\ Observe(t, limit)
    /\ UNCHANGED <<rvars, solo, elsewhere>>

\* ------------------------------------------- any threads, any interleaving
Steps(t, limit) ==
    \/ PushBegin(t, calls + 1) /\ Concurrent(t, limit)
    \/ PushLoadSeq(t) /\ Concurrent(t, limit)
    \/ PushCAS(t) /\ Concurrent(t, limit)
    \/ PushCASSpurious(t) /\ Concurrent(t, limit)
    \/ PushReload(t) /\ Concurrent(t, limit)
    \/ PushWrite(t) /\ Concurrent(t, limit)
    \/ PushPublish(t) /\ Concurrent(t, limit)
    \/ PopBegin(t) /\ Concurrent(t, limit)
    \/ PopLoadSeq(t) /\ Concurrent(t, limit)
    \/ PopCAS(t) /\ Concurrent(t, limit)
    \/ PopCASSpurious(t) /\ Concurrent(t, limit)
    \/ PopReload(t) /\ Concurrent(t, limit)
    \/ PopRead(t) /\ Concurrent(t, limit)
    \/ PopRepublish(t) /\ Concurrent(t, limit)

Next == \E t \in Threads : Steps(t, MaxCalls)

Spec == Init /\ [][Next]_vars

\* ------------------------------- any threads, a value type that can throw
NextThrowing ==
    \E t \in Threads :
        \/ Steps(t, MaxCallsTested)
        \/ PushWriteThrows(t) /\ Concurrent(t, MaxCallsTested)

SpecThrowing == Init /\ [][NextThrowing]_vars

\* The capacities the test suite instantiates (2 is its "minimum practical
\* size"), with one more call.
InitTested == Init /\ Capacity >= 2

NextTested == \E t \in Threads : Steps(t, MaxCallsTested)

SpecTested == InitTested /\ [][NextTested]_vars

\* ------------------------------------- one producer thread, one consumer
Producer == 1
Consumer == 2

\* With a single producer the enqueue cursor never moves under a try_push, so
\* its diff > 0 branch (PushReload) is dead code here.
NextSPSC ==
    \/ PushBegin(Producer, calls + 1) /\ Concurrent(Producer, MaxCallsTested)
    \/ PushLoadSeq(Producer) /\ Concurrent(Producer, MaxCallsTested)
    \/ PushCAS(Producer) /\ Concurrent(Producer, MaxCallsTested)
    \/ PushCASSpurious(Producer) /\ Concurrent(Producer, MaxCallsTested)
    \/ PushWrite(Producer) /\ Concurrent(Producer, MaxCallsTested)
    \/ PushPublish(Producer) /\ Concurrent(Producer, MaxCallsTested)
    \/ PopBegin(Consumer) /\ Concurrent(Consumer, MaxCallsTested)
    \/ PopLoadSeq(Consumer) /\ Concurrent(Consumer, MaxCallsTested)
    \/ PopCAS(Consumer) /\ Concurrent(Consumer, MaxCallsTested)
    \/ PopCASSpurious(Consumer) /\ Concurrent(Consumer, MaxCallsTested)
    \/ PopReload(Consumer) /\ Concurrent(Consumer, MaxCallsTested)
    \/ PopRead(Consumer) /\ Concurrent(Consumer, MaxCallsTested)
    \/ PopRepublish(Consumer) /\ Concurrent(Consumer, MaxCallsTested)

SpecSPSC == Init /\ [][NextSPSC]_vars

SpecSPSCTested == InitTested /\ [][NextSPSC]_vars

\* --------------------------------------------------- one thread, any calls
Main == 1

\* The reference: a FIFO queue bounded at Capacity elements, given the call
\* that thread t starts in this step.
Refer(t) ==
    IF pc[t] = "idle" /\ pc'[t] = "push_seq"
    THEN /\ ref' = IF Len(ref) < Capacity THEN Append(ref, item'[t]) ELSE ref
         /\ refRet' = IF Len(ref) < Capacity THEN "true" ELSE "false"
         /\ refOut' = NoValue
    ELSE IF pc[t] = "idle" /\ pc'[t] = "pop_seq"
    THEN /\ ref' = IF ref # <<>> THEN Tail(ref) ELSE ref
         /\ refRet' = IF ref # <<>> THEN "true" ELSE "false"
         /\ refOut' = IF ref # <<>> THEN Head(ref) ELSE NoValue
    ELSE UNCHANGED rvars

\* A step of the only thread, the reference following.
Sequential ==
    /\ solo = 0
    /\ Refer(Main)
    /\ UNCHANGED <<hvars, solo, elsewhere>>

\* Alone, a thread never finds the enqueue cursor moved: PushReload is dead
\* code here.
NextST ==
    \/ \E v \in Values : PushBegin(Main, v) /\ Sequential
    \/ PushLoadSeq(Main) /\ Sequential
    \/ PushCAS(Main) /\ Sequential
    \/ PushCASSpurious(Main) /\ Sequential
    \/ PushWrite(Main) /\ Sequential
    \/ PushPublish(Main) /\ Sequential
    \/ PopBegin(Main) /\ Sequential
    \/ PopLoadSeq(Main) /\ Sequential
    \/ PopCAS(Main) /\ Sequential
    \/ PopCASSpurious(Main) /\ Sequential
    \/ PopReload(Main) /\ Sequential
    \/ PopRead(Main) /\ Sequential
    \/ PopRepublish(Main) /\ Sequential

SpecST == Init /\ [][NextST]_vars

SpecSTTested == InitTested /\ [][NextST]_vars

\* ------------------- one thread: the calls of the capacity-boundary tests
\* try_pop on the fresh queue, Capacity + 1 times try_push, try_pop, try_push
BoundaryScript ==
    <<"pop">> \o [i \in 1 .. Capacity + 1 |-> "push"] \o <<"pop", "push">>

\* The call that starts next is the script's next call.
Scripted(op) ==
    /\ calls < Len(BoundaryScript)
    /\ BoundaryScript[calls + 1] = op
    /\ Concurrent(Main, Len(BoundaryScript))

Running == Concurrent(Main, Len(BoundaryScript))

NextBoundary ==
    \/ \E v \in Values : PushBegin(Main, v) /\ Scripted("push")
    \/ PushLoadSeq(Main) /\ Running
    \/ PushCAS(Main) /\ Running
    \/ PushCASSpurious(Main) /\ Running
    \/ PushWrite(Main) /\ Running
    \/ PushPublish(Main) /\ Running
    \/ PopBegin(Main) /\ Scripted("pop")
    \/ PopLoadSeq(Main) /\ Running
    \/ PopCAS(Main) /\ Running
    \/ PopCASSpurious(Main) /\ Running
    \/ PopReload(Main) /\ Running
    \/ PopRead(Main) /\ Running
    \/ PopRepublish(Main) /\ Running

SpecBoundary == Init /\ [][NextBoundary]_vars

SpecBoundaryTested == InitTested /\ [][NextBoundary]_vars

\* ------------------------------ a call run with every other thread suspended
\* Thread t starts a call while the scheduler suspends every other thread.
Isolated(t) ==
    /\ solo = 0
    /\ Observe(t, MaxCalls)
    /\ solo' = t
    /\ UNCHANGED <<rvars, elsewhere>>

\* A step of the thread that runs alone; the others resume when it returns.
Alone(t) ==
    /\ solo = t
    /\ Observe(t, MaxCalls)
    /\ solo' = IF pc'[t] = "idle" THEN 0 ELSE t
    /\ UNCHANGED <<rvars, elsewhere>>

\* Alone, a thread never finds the enqueue cursor moved: PushReload is dead
\* code in a call that runs alone.
AloneStep(t) ==
    \/ PushLoadSeq(t) /\ Alone(t)
    \/ PushCAS(t) /\ Alone(t)
    \/ PushCASSpurious(t) /\ Alone(t)
    \/ PushWrite(t) /\ Alone(t)
    \/ PushPublish(t) /\ Alone(t)
    \/ PopLoadSeq(t) /\ Alone(t)
    \/ PopCAS(t) /\ Alone(t)
    \/ PopCASSpurious(t) /\ Alone(t)
    \/ PopReload(t) /\ Alone(t)
    \/ PopRead(t) /\ Alone(t)
    \/ PopRepublish(t) /\ Alone(t)

AloneRun == \E t \in Threads : AloneStep(t)

NextSolo ==
    \/ \E t \in Threads : Steps(t, MaxCalls)
    \/ \E t \in Threads : PushBegin(t, calls + 1) /\ Isolated(t)
    \/ \E t \in Threads : PopBegin(t) /\ Isolated(t)
    \/ AloneRun

\* The thread that runs alone keeps taking steps.
SpecSolo == Init /\ [][NextSolo]_vars /\ WF_vars(AloneRun)

SpecSoloTested == InitTested /\ [][NextSolo]_vars /\ WF_vars(AloneRun)

\* ------------------------------------------- threads in a call keep running
\* The steps of thread t inside a call.
InCall(t) ==
    \/ PushLoadSeq(t) /\ Concurrent(t, MaxCalls)
    \/ PushCAS(t) /\ Concurrent(t, MaxCalls)
    \/ PushCASSpurious(t) /\ Concurrent(t, MaxCalls)
    \/ PushReload(t) /\ Concurrent(t, MaxCalls)
    \/ PushWrite(t) /\ Concurrent(t, MaxCalls)
    \/ PushPublish(t) /\ Concurrent(t, MaxCalls)
    \/ PopLoadSeq(t) /\ Concurrent(t, MaxCalls)
    \/ PopCAS(t) /\ Concurrent(t, MaxCalls)
    \/ PopCASSpurious(t) /\ Concurrent(t, MaxCalls)
    \/ PopReload(t) /\ Concurrent(t, MaxCalls)
    \/ PopRead(t) /\ Concurrent(t, MaxCalls)
    \/ PopRepublish(t) /\ Concurrent(t, MaxCalls)

\* Every thread that is inside a call keeps taking steps.
SpecFair == Init /\ [][Next]_vars /\ \A t \in Threads : WF_vars(InCall(t))

SpecFairTested ==
    InitTested /\ [][Next]_vars /\ \A t \in Threads : WF_vars(InCall(t))

\* ------------------------------------------------------ vocabulary of claims
Quiescent == \A t \in Threads : pc[t] = "idle"

\* With no call in flight, a try_pop started now returns false.
Drained == Quiescent /\ PopDiff(dequeue_index_) < 0

Count(s, v) == Cardinality({i \in DOMAIN s : s[i] = v})

Range(s) == {s[i] : i \in DOMAIN s}

SameMultiset(s1, s2) ==
    \A v \in Range(s1) \cup Range(s2) : Count(s1, v) = Count(s2, v)

IsPrefix(s1, s2) ==
    Len(s1) <= Len(s2) /\ \A i \in DOMAIN s1 : s1[i] = s2[i]

\* Values claimed by a try_push and not yet claimed by a try_pop.
Occupancy == SignedDiff(enqueue_index_, dequeue_index_)

\* ---------------------------------------------------------------------- C1
\* C1: once every call has returned and the queue is drained, as many
\* try_push calls returned true as try_pop calls, and the values popped are,
\* as a multiset, the values pushed.
Conservation ==
    Drained => Len(pushed) = Len(popped) /\ SameMultiset(pushed, popped)

\* ---------------------------------------------------------------------- C2
\* C2: with one producer thread and one consumer thread, the values returned
\* by the successful try_pop calls are at every instant a prefix of the values
\* passed to the successful try_push calls.
FifoSPSC == IsPrefix(popped, pushed)

\* ---------------------------------------------------------------------- C3
\* C3: at every reachable state enqueue_index_ - dequeue_index_ is at most
\* Capacity.
BoundedOccupancy == Occupancy <= Capacity

\* ---------------------------------------------------------------------- C4
\* What the calls of BoundaryScript return on a queue that holds at most
\* Capacity values.
BoundaryExpected ==
    <<"false">> \o [i \in 1 .. Capacity |-> "true"]
                \o <<"false", "true", "true">>

\* C4: on a fresh queue try_pop returns false; then Capacity calls of
\* try_push return true and the next one false; after one try_pop, which
\* returns true, try_push returns true again.
FullEmptyBoundary ==
    (pc[Main] = "idle" /\ calls >= 1) => ret[Main] = BoundaryExpected[calls]

\* --------------------------------------------------------------------- C10
\* C10: for any sequence of calls by one thread, every returned boolean and
\* every popped value is what a FIFO queue bounded at Capacity returns.
RefinesFifo ==
    (pc[Main] = "idle" /\ ret[Main] # "none") =>
        /\ ret[Main] = refRet
        /\ refOut # NoValue => item[Main] = refOut

\* ---------------------------------------------------------------------- C5
\* Values claimed by a try_push whose try_pop has not returned.
NotFullyDequeued == enqueue_index_ - Len(popped)

\* C5: whenever a try_push returns false, at the moment it loaded the cell's
\* sequence counter the successful push claims minus the completed try_pop
\* calls equal Capacity.
PushFalseOnlyIfFull ==
    [][\A t \in Threads :
          (pc[t] = "push_seq" /\ pc'[t] = "idle") =>
              NotFullyDequeued = Capacity]_vars

\* ---------------------------------------------------------------------- C6
\* Values whose try_push has returned true and that no try_pop has claimed.
PublishedUnclaimed == Len(pushed) - dequeue_index_

\* C6: whenever a try_pop returns false, at the moment it loaded the cell's
\* sequence counter no published value is unclaimed.
PopFalseOnlyIfEmpty ==
    [][\A t \in Threads :
          (pc[t] = "pop_seq" /\ pc'[t] = "idle") =>
              PublishedUnclaimed <= 0]_vars

\* Calls that have returned.
Returned == calls - Cardinality({t \in Threads : pc[t] # "idle"})

\* ---------------------------------------------------------------------- C7
\* C7: a call that runs alone from any reachable state, every other thread
\* suspended wherever it is, returns.
NonBlocking == (solo # 0) ~> (solo = 0)

\* ---------------------------------------------------------------------- C8
\* C8: while threads inside a call keep taking steps, some call returns.
LockFree ==
    \A n \in 0 .. MaxCalls :
        (~Quiescent /\ Returned = n) ~> (Returned > n)

\* ---------------------------------------------------------------------- C9
\* C9: every call of a thread that keeps taking steps returns.
WaitFree == \A t \in Threads : (pc[t] # "idle") ~> (pc[t] = "idle")

\* ------------------------------------------------ instantiating the template
\* Every value a size_t template argument can take.
Candidates == 0 .. Modulus - 1

\* LockFreeQueue<T, Capacity> named in a declaration, nothing checked yet.
InitDeclared ==
    /\ Capacity \in Candidates
    /\ instantiation = "declared"
    /\ enqueue_index_ = 0
    /\ dequeue_index_ = 0
    /\ seq = <<>>
    /\ data = <<>>
    /\ pc = [t \in Threads |-> "idle"]
    /\ current_pos = [t \in Threads |-> 0]
    /\ item = [t \in Threads |-> NoValue]
    /\ ret = [t \in Threads |-> "none"]
    /\ spurious = [t \in Threads |-> 0]
    /\ InitHistory /\ InitReference /\ solo = 0 /\ InitPool /\ InitVector
    /\ InitUnique

\* static_assert((Capacity & (Capacity - 1)) == 0, "Capacity must be power
\* of 2"): the build stops when the condition is false.
StaticAssert ==
    /\ instantiation = "declared"
    /\ instantiation' = IF StaticAssertHolds(Capacity) THEN "accepted"
                        ELSE "rejected"
    /\ UNCHANGED <<qvars, hvars, rvars, solo, pvars, vvars, lvars, tvars,
                   uvars>>

\* LockFreeQueue(): buffer_[i].seq.store(i) for i < Capacity
Construct ==
    /\ instantiation = "accepted"
    /\ seq' = [i \in 0 .. Capacity - 1 |-> i]
    /\ data' = [i \in 0 .. Capacity - 1 |-> NoValue]
    /\ instantiation' = "constructed"
    /\ UNCHANGED <<Capacity, enqueue_index_, dequeue_index_, pc, current_pos,
                   item, ret, spurious, hvars, rvars, solo, pvars, vvars,
                   lvars, tvars, uvars>>

NextInstantiate == StaticAssert \/ Construct
SpecInstantiate == InitDeclared /\ [][NextInstantiate]_vars

\* Capacity = 2^k for some k
IsPowerOfTwo(c) == \E k \in 0 .. WordBits - 1 : c = 2 ^ k

\* C11: once the static check has run, the instantiation was rejected exactly
\* when Capacity is not a power of two (0 included).
CapacityValidation ==
    instantiation # "declared" =>
        (instantiation = "rejected" <=> ~IsPowerOfTwo(Capacity))

\* What a call of thread t can have an effect on: the cursors, the cells and
\* the caller's item.
Affected(t) == <<enqueue_index_, dequeue_index_, seq, data, item[t]>>

\* Thread t takes this step inside a call (after its arguments were passed).
StepsInCall(t) == pc[t] # "idle" /\ pc'[t] # pc[t]

\* The step leaves t's call past a won cursor CAS, or returns true.
Succeeding(t) == pc'[t] \in OwnerPcs \/ (pc'[t] = "idle" /\ ret'[t] = "true")

\* C12: a call that returns false had no effect: a step of a call that changes
\* a cursor, a cell's seq or data, or the caller's item belongs to a call that
\* returns true, and the step that returns false changes none of them.
NoEffectWhenFalse ==
    [][\A t \in Threads :
          /\ (StepsInCall(t) /\ Affected(t)' # Affected(t)) => Succeeding(t)
          /\ (StepsInCall(t) /\ pc[t] \in OwnerPcs) => Succeeding(t)
          /\ (StepsInCall(t) /\ pc'[t] = "idle" /\ ret'[t] = "false") =>
                 UNCHANGED <<enqueue_index_, dequeue_index_, seq, data, item>>
      ]_vars

\* Both kinds of call have returned false: a try_pop whose output parameter
\* still holds the value of the caller's earlier try_pop, and a try_push whose
\* item was never enqueued.
FalseReturnsSeen ==
    \E t, u \in Threads :
        /\ pc[t] = "idle" /\ ret[t] = "false" /\ item[t] \in Range(popped)
        /\ pc[u] = "idle" /\ ret[u] = "false" /\ item[u] # NoValue
        /\ item[u] \notin Range(pushed)

\* ------------------------------------------------------- ThreadPool::worker
\* nobody holds mutex_
Unlocked == mutex_ = 0

\* while (!stop_token.stop_requested()) { std::function<void()> task;
WorkerLoop(w) ==
    /\ wpc[w] = "loop"
    /\ wpc' = [wpc EXCEPT ![w] = IF stop_requested[w] THEN "done" ELSE "lock"]
    /\ task' = [task EXCEPT ![w] = 0]
    /\ UNCHANGED <<is_shutdown_, stop_requested, task_queue_, mutex_, cv_,
                   future, fn, runs, cpc, ctask, thread, destroying>>

\* std::unique_lock<std::mutex> lock(mutex_);
WorkerLock(w) ==
    /\ wpc[w] = "lock"
    /\ Unlocked
    /\ mutex_' = w
    /\ wpc' = [wpc EXCEPT ![w] = "pred"]
    /\ UNCHANGED <<is_shutdown_, stop_requested, task_queue_, cv_, task,
                   future, fn, runs, cpc, ctask, thread, destroying>>

\* the predicate of cv_.wait(lock, pred), evaluated holding the mutex
WaitPredicate(w) ==
    task_queue_ # <<>> \/ is_shutdown_ \/ stop_requested[w]

\* cv_.wait(lock, pred): while (!pred()) wait(lock);
WorkerPred(w) ==
    /\ wpc[w] = "pred"
    /\ wpc' = [wpc EXCEPT ![w] = IF WaitPredicate(w) THEN "check" ELSE "block"]
    /\ UNCHANGED <<is_shutdown_, stop_requested, task_queue_, mutex_, cv_,
                   task, future, fn, runs, cpc, ctask, thread, destroying>>

\* wait(lock): release the mutex and block, atomically
WorkerBlock(w) ==
    /\ wpc[w] = "block"
    /\ mutex_' = 0
    /\ cv_' = cv_ \cup {w}
    /\ wpc' = [wpc EXCEPT ![w] = "wait"]
    /\ UNCHANGED <<is_shutdown_, stop_requested, task_queue_, task, future,
                   fn, runs, cpc, ctask, thread, destroying>>

\* a condition variable may wake a waiter without a notification
SpuriousWake(w) ==
    /\ w \in cv_
    /\ cv_' = cv_ \ {w}
    /\ UNCHANGED <<is_shutdown_, stop_requested, task_queue_, mutex_, wpc,
                   task, future, fn, runs, cpc, ctask, thread, destroying>>

\* wait(lock) returns: the woken worker takes the mutex again
WorkerWake(w) ==
    /\ wpc[w] = "wait"
    /\ w \notin cv_
    /\ Unlocked
    /\ mutex_' = w
    /\ wpc' = [wpc EXCEPT ![w] = "pred"]
    /\ UNCHANGED <<is_shutdown_, stop_requested, task_queue_, cv_, task,
                   future, fn, runs, cpc, ctask, thread, destroying>>

\* A worker whose lock outlives the block: the mutex is still held when the
\* task is invoked.
WorkerCheckKeepingLock(w) ==
    /\ wpc[w] = "check"
    /\ IF stop_requested[w] \/ (is_shutdown_ /\ task_queue_ = <<>>)
       THEN /\ wpc' = [wpc EXCEPT ![w] = "done"]
            /\ mutex_' = 0
            /\ UNCHANGED <<task_queue_, task>>
       ELSE IF task_queue_ # <<>>
       THEN /\ task' = [task EXCEPT ![w] = Head(task_queue_)]
            /\ task_queue_' = Tail(task_queue_)
            /\ wpc' = [wpc EXCEPT ![w] = "run"]
            /\ mutex_' = mutex_
       ELSE /\ wpc' = [wpc EXCEPT ![w] = "loop"]
            /\ mutex_' = 0
            /\ UNCHANGED <<task_queue_, task>>
    /\ UNCHANGED <<is_shutdown_, stop_requested, cv_, future, fn, runs, cpc,
                   ctask, thread, destroying>>

\* A worker that takes the task at the back of the queue.
WorkerCheckFromBack(w) ==
    /\ wpc[w] = "check"
    /\ mutex_' = 0
    /\ IF stop_requested[w] \/ (is_shutdown_ /\ task_queue_ = <<>>)
       THEN /\ wpc' = [wpc EXCEPT ![w] = "done"]
            /\ UNCHANGED <<task_queue_, task>>
       ELSE IF task_queue_ # <<>>
       THEN /\ task' = [task EXCEPT ![w] = task_queue_[Len(task_queue_)]]
            /\ task_queue_' = SubSeq(task_queue_, 1, Len(task_queue_) - 1)
            /\ wpc' = [wpc EXCEPT ![w] = "run"]
       ELSE /\ wpc' = [wpc EXCEPT ![w] = "loop"]
            /\ UNCHANGED <<task_queue_, task>>
    /\ UNCHANGED <<is_shutdown_, stop_requested, cv_, future, fn, runs, cpc,
                   ctask, thread, destroying>>

\* if (stop_requested() || (is_shutdown_ && empty())) return;
\* if (!empty()) { task = front(); pop(); } else continue;   } // unlocked
WorkerCheck(w) ==
    /\ wpc[w] = "check"
    /\ mutex_' = 0
    /\ IF stop_requested[w] \/ (is_shutdown_ /\ task_queue_ = <<>>)
       THEN /\ wpc' = [wpc EXCEPT ![w] = "done"]
            /\ UNCHANGED <<task_queue_, task>>
       ELSE IF task_queue_ # <<>>
       THEN /\ task' = [task EXCEPT ![w] = Head(task_queue_)]
            /\ task_queue_' = Tail(task_queue_)
            /\ wpc' = [wpc EXCEPT ![w] = "run"]
       ELSE /\ wpc' = [wpc EXCEPT ![w] = "loop"]
            /\ UNCHANGED <<task_queue_, task>>
    /\ UNCHANGED <<is_shutdown_, stop_requested, cv_, future, fn, runs, cpc,
                   ctask, thread, destroying>>

\* A worker whose task() lets the callable's exception escape: the thread
\* function exits with it and the worker is gone.
WorkerRunUncaught(w) ==
    /\ wpc[w] = "run"
    /\ IF fn[task[w]] = "throws"
       THEN /\ runs' = [runs EXCEPT ![task[w]] = @ + 1]
            /\ wpc' = [wpc EXCEPT ![w] = "terminated"]
            /\ UNCHANGED future
       ELSE /\ runs' = [runs EXCEPT ![task[w]] = @ + 1]
            /\ future' = [future EXCEPT ![task[w]] = Outcome(task[w])]
            /\ wpc' = [wpc EXCEPT ![w] = "loop"]
    /\ UNCHANGED <<is_shutdown_, stop_requested, task_queue_, mutex_, cv_,
                   task, fn, cpc, ctask, thread, destroying>>

\* if (task) task();  the packaged_task stores the callable's value or its
\* exception in the shared state
WorkerRun(w) ==
    /\ wpc[w] = "run"
    /\ IF task[w] # 0
       THEN /\ runs' = [runs EXCEPT ![task[w]] = @ + 1]
            /\ future' = [future EXCEPT ![task[w]] = Outcome(task[w])]
       ELSE UNCHANGED <<runs, future>>
    /\ wpc' = [wpc EXCEPT ![w] = "loop"]
    /\ UNCHANGED <<is_shutdown_, stop_requested, task_queue_, mutex_, cv_,
                   task, fn, cpc, ctask, thread, destroying>>

\* -------------------------------------------------- ThreadPool::submit_task
\* Tasks some submit_task call has made a packaged_task for.
Submitted == {k \in TaskIds : fn[k] # "none"}

\* The callables the clients submit: every second one throws.
Callable(k) == IF k % 2 = 0 THEN "throws" ELSE "returns"

\* auto task = std::make_shared<std::packaged_task<...>>(...);
\* auto future = task->get_future();
SubmitBegin(c) ==
    /\ cpc[c] = "idle"
    /\ ~destroying
    /\ Cardinality(Submitted) < NTasks
    /\ LET k == Cardinality(Submitted) + 1
       IN  /\ fn' = [fn EXCEPT ![k] = Callable(k)]
           /\ ctask' = [ctask EXCEPT ![c] = k]
    /\ cpc' = [cpc EXCEPT ![c] = "submit"]
    /\ UNCHANGED <<is_shutdown_, stop_requested, task_queue_, mutex_, cv_,
                   wpc, task, future, runs, thread, destroying>>

\* A submit_task that queues the task before it looks at the shutdown flag.
SubmitLockedQueueFirst(c) ==
    /\ cpc[c] = "submit"
    /\ Unlocked
    /\ task_queue_' = Append(task_queue_, ctask[c])
    /\ IF is_shutdown_
       THEN /\ future' = [future EXCEPT ![ctask[c]] =
                              Thrown("ThreadPool is shut down")]
            /\ cpc' = [cpc EXCEPT ![c] = "idle"]
            /\ ctask' = [ctask EXCEPT ![c] = 0]
       ELSE /\ cpc' = [cpc EXCEPT ![c] = "notify"]
            /\ UNCHANGED <<future, ctask>>
    /\ UNCHANGED <<is_shutdown_, stop_requested, mutex_, cv_, wpc, task, fn,
                   runs, thread, destroying>>

\* { std::scoped_lock lock(mutex_);
\*   if (is_shutdown_) { promise.set_exception(runtime_error); return ...; }
\*   task_queue_.emplace([task]() { (*task)(); }); }
SubmitLocked(c) ==
    /\ cpc[c] = "submit"
    /\ Unlocked
    /\ IF is_shutdown_
       THEN /\ future' = [future EXCEPT ![ctask[c]] =
                              Thrown("ThreadPool is shut down")]
            /\ cpc' = [cpc EXCEPT ![c] = "idle"]
            /\ ctask' = [ctask EXCEPT ![c] = 0]
            /\ UNCHANGED task_queue_
       ELSE /\ task_queue_' = Append(task_queue_, ctask[c])
            /\ cpc' = [cpc EXCEPT ![c] = "notify"]
            /\ UNCHANGED <<future, ctask>>
    /\ UNCHANGED <<is_shutdown_, stop_requested, mutex_, cv_, wpc, task, fn,
                   runs, thread, destroying>>

\* cv_.notify_one(): wakes one of the blocked workers, if there is one
NotifyOne ==
    IF cv_ = {} THEN cv_' = cv_ ELSE \E w \in cv_ : cv_' = cv_ \ {w}

\* A submit_task that returns the future without notifying a worker.
SubmitNotifyMissing(c) ==
    /\ cpc[c] = "notify"
    /\ cpc' = [cpc EXCEPT ![c] = "idle"]
    /\ ctask' = [ctask EXCEPT ![c] = 0]
    /\ UNCHANGED <<is_shutdown_, stop_requested, task_queue_, mutex_, cv_, wpc,
                   task, future, fn, runs, thread, destroying>>

\* cv_.notify_one(); return future;
SubmitNotify(c) ==
    /\ cpc[c] = "notify"
    /\ NotifyOne
    /\ cpc' = [cpc EXCEPT ![c] = "idle"]
    /\ ctask' = [ctask EXCEPT ![c] = 0]
    /\ UNCHANGED <<is_shutdown_, stop_requested, task_queue_, mutex_, wpc,
                   task, future, fn, runs, thread, destroying>>

\* ----------------------------------------------------- ThreadPool::shutdown
\* is_shutdown_.store(true, std::memory_order_relaxed);
ShutdownStore(c) ==
    /\ cpc[c] = "idle"
    /\ ~destroying
    /\ is_shutdown_' = TRUE
    /\ cpc' = [cpc EXCEPT ![c] = "notify_all"]
    /\ UNCHANGED <<stop_requested, task_queue_, mutex_, cv_, wpc, task,
                   future, fn, runs, ctask, thread, destroying>>

\* cv_.notify_all();
ShutdownNotifyAll(c) ==
    /\ cpc[c] = "notify_all"
    /\ cv_' = {}
    /\ cpc' = [cpc EXCEPT ![c] = "request_stop"]
    /\ thread' = [thread EXCEPT ![c] = 1]
    /\ UNCHANGED <<is_shutdown_, stop_requested, task_queue_, mutex_, wpc,
                   task, future, fn, runs, ctask, destroying>>

\* for (auto& thread : thread_workers_) thread.request_stop();
\* the destructor goes on to join the workers
ShutdownRequestStop(c) ==
    /\ cpc[c] = "request_stop"
    /\ IF thread[c] <= NWorkers
       THEN /\ stop_requested' = [stop_requested EXCEPT ![thread[c]] = TRUE]
            /\ thread' = [thread EXCEPT ![c] = @ + 1]
            /\ cpc' = cpc
       ELSE /\ cpc' = [cpc EXCEPT ![c] = IF destroying THEN "join"
                                         ELSE "idle"]
            /\ thread' = [thread EXCEPT ![c] = 0]
            /\ UNCHANGED stop_requested
    /\ UNCHANGED <<is_shutdown_, task_queue_, mutex_, cv_, wpc, task, future,
                   fn, runs, ctask, destroying>>

\* ---------------------------------------------------- ThreadPool::~ThreadPool
\* ~ThreadPool() { shutdown(); ... }: entered by the owner once no other
\* thread is using the pool
DestructorBegin ==
    /\ \A c \in Clients : cpc[c] = "idle"
    /\ ~destroying
    /\ destroying' = TRUE
    /\ is_shutdown_' = TRUE
    /\ cpc' = [cpc EXCEPT ![Owner] = "notify_all"]
    /\ UNCHANGED <<stop_requested, task_queue_, mutex_, cv_, wpc, task,
                   future, fn, runs, ctask, thread>>

\* The members are destroyed: every std::jthread joins its worker, then the
\* task queue is destroyed, and with it every packaged_task still in it,
\* which leaves broken_promise in that task's future.
DestructorJoin ==
    /\ cpc[Owner] = "join"
    /\ \A w \in Workers : wpc[w] = "done"
    /\ future' = [k \in TaskIds |->
                     IF \E i \in DOMAIN task_queue_ : task_queue_[i] = k
                     THEN Thrown("broken_promise") ELSE future[k]]
    /\ task_queue_' = <<>>
    /\ cpc' = [cpc EXCEPT ![Owner] = "destroyed"]
    /\ UNCHANGED <<is_shutdown_, stop_requested, mutex_, cv_, wpc, task, fn,
                   runs, ctask, thread, destroying>>

\* ------------------------------------------------------ pool specifications
\* The order of the pool's events in this step: task_queue_.emplace(...) in
\* submit_task, front() and pop() in a worker, the return of task().
Order ==
    /\ accepted' = IF Len(task_queue_') > Len(task_queue_)
                   THEN Append(accepted, task_queue_'[Len(task_queue_')])
                   ELSE accepted
    /\ dequeued' = IF \E w \in Workers : wpc[w] = "check" /\ wpc'[w] = "run"
                   THEN Append(dequeued,
                               [task |-> Head(task_queue_),
                                worker |-> CHOOSE w \in Workers :
                                    wpc[w] = "check" /\ wpc'[w] = "run"])
                   ELSE dequeued
    /\ finished' = IF \E w \in Workers : wpc[w] = "run" /\ wpc'[w] # "run"
                   THEN Append(finished,
                               task[CHOOSE w \in Workers :
                                        wpc[w] = "run" /\ wpc'[w] # "run"])
                   ELSE finished

\* The pool's threads do not touch the queue object.
PoolOnly ==
    /\ Order
    /\ UNCHANGED <<qvars, hvars, rvars, solo, instantiation, vvars, lvars,
                   tvars, uvars>>

WorkerStep(w) ==
    \/ WorkerLoop(w) /\ PoolOnly
    \/ WorkerLock(w) /\ PoolOnly
    \/ WorkerPred(w) /\ PoolOnly
    \/ WorkerBlock(w) /\ PoolOnly
    \/ WorkerWake(w) /\ PoolOnly
    \/ WorkerCheck(w) /\ PoolOnly
    \/ WorkerRun(w) /\ PoolOnly

SubmitStep(c) ==
    \/ SubmitBegin(c) /\ PoolOnly
    \/ SubmitLocked(c) /\ PoolOnly
    \/ SubmitNotify(c) /\ PoolOnly

ShutdownStep(c) ==
    \/ ShutdownStore(c) /\ PoolOnly
    \/ ShutdownNotifyAll(c) /\ PoolOnly
    \/ ShutdownRequestStop(c) /\ PoolOnly

\* One pool next to a queue of the smallest capacity the tests instantiate.
InitPoolOnly == Init /\ Capacity = 2

\* A pool that is not shut down: clients submit, workers run.
NextRunning ==
    \/ \E w \in Workers : WorkerStep(w)
    \/ \E w \in Workers : SpuriousWake(w) /\ PoolOnly
    \/ \E c \in Clients : SubmitStep(c)
SpecRunning == InitPoolOnly /\ [][NextRunning]_vars

\* The whole life of a pool, shutdown() and the destructor included.
NextPool ==
    \/ NextRunning
    \/ ShutdownStep(Owner)
    \/ DestructorBegin /\ PoolOnly
    \/ DestructorJoin /\ PoolOnly
SpecPool == InitPoolOnly /\ [][NextPool]_vars

\* No submit_task call is in progress and every worker is blocked in
\* cv_.wait with no notification on its way: nothing more will happen.
PoolQuiescent ==
    /\ \A c \in Clients : cpc[c] = "idle"
    /\ \A w \in Workers : w \in cv_

\* Task k was invoked once and its future holds what its callable produced.
Delivered(k) == runs[k] = 1 /\ future[k] = Outcome(k)

\* C13: in a pool that is not shut down no task is invoked twice, a future
\* that is ready holds its own task's outcome, and once the pool has come to
\* rest every submitted task has been invoked exactly once and delivered.
ExactlyOnce ==
    /\ \A k \in TaskIds : runs[k] <= 1
    /\ \A k \in TaskIds : future[k] # Pending => Delivered(k)
    /\ PoolQuiescent => \A k \in Submitted : Delivered(k)

\* All tasks were submitted and delivered, values among them.
AllDelivered ==
    /\ PoolQuiescent
    /\ Submitted = TaskIds
    /\ \A k \in TaskIds : Delivered(k)
    /\ \E k \in TaskIds : future[k] = Ready(Result(k))

\* Task k was put on the task queue: its submit_task call found the pool not
\* shut down, which is before any shutdown() stored the flag.
Accepted(k) ==
    /\ k \in Submitted
    /\ future[k] # Thrown("ThreadPool is shut down")
    /\ \A c \in Clients : cpc[c] = "submit" => ctask[c] # k

\* C14: once every worker has left its loop, each task that was queued before
\* shutdown() has been invoked and its future holds the task's outcome.
QueuedBeforeShutdownCompletes ==
    (\A w \in Workers : wpc[w] = "done") =>
        \A k \in TaskIds : Accepted(k) => Delivered(k)

\* C15: when the destructor has finished its shutdown() and joins the
\* workers, no worker is blocked in cv_.wait (nothing notifies it again).
NoWorkerLeftBlocked ==
    cpc[Owner] = "join" => cv_ = {}

Rejected(k) == future[k] = Thrown("ThreadPool is shut down")
Queued(k) == \E i \in DOMAIN task_queue_ : task_queue_[i] = k

\* C16: the locked block of a submit_task call that finds is_shutdown_ set
\* leaves task_queue_ unchanged and puts the runtime_error in the call's
\* future; the task of such a call is never queued, taken or invoked, and its
\* future keeps the error.
RejectedAfterShutdown ==
    [][/\ \A c \in Clients :
              (cpc[c] = "submit" /\ cpc'[c] # "submit" /\ is_shutdown_) =>
                  /\ task_queue_' = task_queue_
                  /\ future'[ctask[c]] = Thrown("ThreadPool is shut down")
                  /\ runs[ctask[c]] = 0
       /\ \A k \in TaskIds :
              Rejected(k) =>
                  /\ Rejected(k)'
                  /\ runs'[k] = 0
                  /\ ~Queued(k)'
                  /\ \A w \in Workers : task'[w] # k
      ]_vars

\* A call was rejected while an earlier task was still queued and another
\* had been delivered.
RejectedNextToQueued ==
    \E k \in TaskIds :
        /\ Rejected(k)
        /\ task_queue_ # <<>>
        /\ \E j \in TaskIds : Delivered(j)

\* C17: a task that throws leaves its worker in the loop; the exception is in
\* the future of a task only if that task's callable threw it, and once the
\* pool has come to rest every task, those around a throwing one included,
\* has delivered its own outcome.
ThrowContained ==
    /\ \A w \in Workers : wpc[w] \notin {"done", "terminated"}
    /\ \A k \in TaskIds :
           future[k] = Thrown("task exception") =>
               fn[k] = "throws" /\ runs[k] = 1
    /\ \A k \in TaskIds :
           (fn[k] = "returns" /\ runs[k] = 1) => future[k] = Ready(Result(k))
    /\ PoolQuiescent => \A k \in Submitted : Delivered(k)

\* A throwing task was submitted between two returning ones; all three have
\* been delivered and the workers are waiting for more.
ThrownBetweenReturns ==
    /\ PoolQuiescent
    /\ \E j, k, l \in TaskIds :
           /\ j < k /\ k < l
           /\ future[j] = Ready(Result(j))
           /\ future[k] = Thrown("task exception")
           /\ future[l] = Ready(Result(l))

\* ------------------------------------------------------------ malloc / free
\* The lowest address not handed out.
Fresh(h) ==
    CHOOSE b \in Blocks : ~h[b].live /\ \A c \in Blocks : c < b => h[c].live

\* malloc(sizeof(T) * n): malloc(0) returns nullptr or a unique pointer.
Malloc(h, n) == IF n = 0 THEN {0, Fresh(h)} ELSE {Fresh(h)}

\* The block at p holds these cells.
Store(h, p, cells) ==
    IF p = 0 THEN h ELSE [h EXCEPT ![p] = [live |-> TRUE, cells |-> cells]]

\* free(p); free(nullptr) does nothing
Free(h, p) == IF p = 0 THEN h ELSE [h EXCEPT ![p] = Unallocated]

Cells(h, p) == IF p = 0 THEN <<>> ELSE h[p].cells

\* The first n cells of the block at p followed by raw cells, capacity cells
\* in all.
Filled(h, p, n, capacity) ==
    [i \in 1 .. capacity |-> IF i <= n THEN Cells(h, p)[i] ELSE Raw]

\* ------------------------------------------------------------------- Vector
\* A reallocate that fills the new block from the back of the old one.
ReallocateBackwards(h, v, n, new_capacity, p) ==
    Free(Store(h, p, [i \in 1 .. new_capacity |->
                         IF i <= n THEN Cells(h, data_[v])[n + 1 - i]
                         ELSE Raw]),
         data_[v])

\* reallocate(new_capacity), new_data being p: the elements are moved into
\* the new block, the old block is freed
Reallocate(h, v, n, new_capacity, p) ==
    Free(Store(h, p, Filled(h, data_[v], n, new_capacity)), data_[v])

\* Vector(size_t capacity = 0)
ConstructWith(v, capacity) ==
    /\ ~alive[v]
    /\ LET p == IF capacity = 0 THEN 0 ELSE Fresh(heap)
       IN  /\ heap' = Store(heap, p, [i \in 1 .. capacity |-> Raw])
           /\ data_' = [data_ EXCEPT ![v] = p]
    /\ capacity_' = [capacity_ EXCEPT ![v] = capacity]
    /\ size_' = [size_ EXCEPT ![v] = 0]
    /\ alive' = [alive EXCEPT ![v] = TRUE]

\* ~Vector(): destroys the elements and frees the block
Destroy(v) ==
    /\ alive[v]
    /\ heap' = Free(heap, data_[v])
    /\ data_' = [data_ EXCEPT ![v] = 0]
    /\ capacity_' = [capacity_ EXCEPT ![v] = 0]
    /\ size_' = [size_ EXCEPT ![v] = 0]
    /\ alive' = [alive EXCEPT ![v] = FALSE]

\* std::copy(other.data_, other.data_ + size_, data_) into the block malloc
\* has just returned: it assigns to objects that were never constructed,
\* which is defined only for a trivially copyable T. For another T the
\* assignment reads an indeterminate object and what the cells hold
\* afterwards is not determined: the copies, or nothing constructed.
StdCopy(other) ==
    LET copied == Filled(heap, data_[other], size_[other], capacity_[other])
    IN  IF TriviallyCopyable \/ size_[other] = 0 THEN {copied}
        ELSE {copied, [i \in 1 .. capacity_[other] |-> Raw]}

\* Vector(const Vector &other)
CopyConstruct(v, other) ==
    /\ ~alive[v]
    /\ alive[other]
    /\ \E p \in Malloc(heap, capacity_[other]), cells \in StdCopy(other) :
           /\ heap' = Store(heap, p, cells)
           /\ data_' = [data_ EXCEPT ![v] = p]
    /\ capacity_' = [capacity_ EXCEPT ![v] = capacity_[other]]
    /\ size_' = [size_ EXCEPT ![v] = size_[other]]
    /\ alive' = [alive EXCEPT ![v] = TRUE]

\* A swap that leaves capacity_ where it was.
SwapWithoutCapacity(v, other) ==
    /\ alive[v]
    /\ alive[other]
    /\ size_' = [size_ EXCEPT ![v] = size_[other], ![other] = size_[v]]
    /\ data_' = [data_ EXCEPT ![v] = data_[other], ![other] = data_[v]]
    /\ UNCHANGED <<capacity_, heap, alive>>

\* void swap(Vector &other)
Swap(v, other) ==
    /\ alive[v]
    /\ alive[other]
    /\ size_' = [size_ EXCEPT ![v] = size_[other], ![other] = size_[v]]
    /\ capacity_' = [capacity_ EXCEPT ![v] = capacity_[other],
                                      ![other] = capacity_[v]]
    /\ data_' = [data_ EXCEPT ![v] = data_[other], ![other] = data_[v]]
    /\ UNCHANGED <<heap, alive>>

\* operator=(const Vector &other): Vector copy(other); copy.swap(*this);
\* the temporary dies holding the old block
CopyAssign(v, other) ==
    /\ alive[v]
    /\ alive[other]
    /\ \E p \in Malloc(heap, capacity_[other]), cells \in StdCopy(other) :
           /\ heap' = Free(Store(heap, p, cells), data_[v])
           /\ data_' = [data_ EXCEPT ![v] = p]
    /\ capacity_' = [capacity_ EXCEPT ![v] = capacity_[other]]
    /\ size_' = [size_ EXCEPT ![v] = size_[other]]
    /\ UNCHANGED alive

\* Vector(Vector &&other): std::exchange of each field
MoveConstruct(v, other) ==
    /\ ~alive[v]
    /\ alive[other]
    /\ capacity_' = [capacity_ EXCEPT ![v] = capacity_[other], ![other] = 0]
    /\ size_' = [size_ EXCEPT ![v] = size_[other], ![other] = 0]
    /\ data_' = [data_ EXCEPT ![v] = data_[other], ![other] = 0]
    /\ alive' = [alive EXCEPT ![v] = TRUE]
    /\ UNCHANGED heap

\* A move assignment that only swaps with other.
MoveAssignBySwap(v, other) ==
    /\ alive[v]
    /\ alive[other]
    /\ size_' = [size_ EXCEPT ![v] = size_[other], ![other] = size_[v]]
    /\ capacity_' = [capacity_ EXCEPT ![v] = capacity_[other],
                                      ![other] = capacity_[v]]
    /\ data_' = [data_ EXCEPT ![v] = data_[other], ![other] = data_[v]]
    /\ UNCHANGED <<heap, alive>>

\* operator=(Vector &&other): Vector copy(std::move(other));
\* copy.swap(*this); the temporary dies holding what *this held after other
\* was emptied
MoveAssign(v, other) ==
    /\ alive[v]
    /\ alive[other]
    /\ LET capacity1 == [capacity_ EXCEPT ![other] = 0]
           size1 == [size_ EXCEPT ![other] = 0]
           data1 == [data_ EXCEPT ![other] = 0]
       IN  /\ capacity_' = [capacity1 EXCEPT ![v] = capacity_[other]]
           /\ size_' = [size1 EXCEPT ![v] = size_[other]]
           /\ data_' = [data1 EXCEPT ![v] = data_[other]]
           /\ heap' = Free(heap, data1[v])
    /\ UNCHANGED alive

\* if (size_ == capacity_) reallocate(capacity_ == 0 ? 1 : 2 * capacity_);
\* new (data_ + size_) T(...); size_++;
ConstructAtEnd(v, x) ==
    /\ alive[v]
    /\ size_[v] < MaxSize
    /\ LET full == size_[v] = capacity_[v]
           new_capacity == IF capacity_[v] = 0 THEN 1
                           ELSE Wrap(2 * capacity_[v])
       IN  /\ \E p \in (IF full THEN Malloc(heap, new_capacity)
                        ELSE {data_[v]}) :
                  LET h == IF full
                           THEN Reallocate(heap, v, size_[v], new_capacity, p)
                           ELSE heap
                  IN  /\ heap' = [h EXCEPT ![p].cells[size_[v] + 1] = x]
                      /\ data_' = [data_ EXCEPT ![v] = p]
           /\ capacity_' = [capacity_ EXCEPT ![v] = IF full THEN new_capacity
                                                    ELSE @]
    /\ size_' = [size_ EXCEPT ![v] = @ + 1]
    /\ UNCHANGED alive

\* void push_back(U &&element)
PushBack(v, x) == ConstructAtEnd(v, x)

\* void emplace_back(Args &&...args)
EmplaceBack(v, x) == ConstructAtEnd(v, x)

\* A pop_back that halves the block as soon as half of it is unused.
PopBackShrinkingAtHalf(v) ==
    /\ alive[v]
    /\ IF size_[v] = 0
       THEN UNCHANGED <<heap, data_, capacity_, size_>>
       ELSE LET n == size_[v] - 1
                h == [heap EXCEPT ![data_[v]].cells[size_[v]] = Raw]
                shrink == n <= capacity_[v] \div 2
                new_capacity == capacity_[v] \div 2
            IN  /\ \E p \in (IF shrink THEN Malloc(h, new_capacity)
                             ELSE {data_[v]}) :
                       /\ heap' = IF shrink
                                  THEN Reallocate(h, v, n, new_capacity, p)
                                  ELSE h
                       /\ data_' = [data_ EXCEPT ![v] = p]
                /\ capacity_' = [capacity_ EXCEPT ![v] =
                                     IF shrink THEN new_capacity ELSE @]
                /\ size_' = [size_ EXCEPT ![v] = n]
    /\ UNCHANGED alive

\* if (size_ == 0) return; data_[size_ - 1].~T(); size_--;
\* if (size_ <= capacity_ / 4) reallocate(capacity_ / 2);
PopBack(v) ==
    /\ alive[v]
    /\ IF size_[v] = 0
       THEN UNCHANGED <<heap, data_, capacity_, size_>>
       ELSE LET n == size_[v] - 1
                h == [heap EXCEPT ![data_[v]].cells[size_[v]] = Raw]
                shrink == n <= capacity_[v] \div 4
                new_capacity == capacity_[v] \div 2
            IN  /\ \E p \in (IF shrink THEN Malloc(h, new_capacity)
                             ELSE {data_[v]}) :
                       /\ heap' = IF shrink
                                  THEN Reallocate(h, v, n, new_capacity, p)
                                  ELSE h
                       /\ data_' = [data_ EXCEPT ![v] = p]
                /\ capacity_' = [capacity_ EXCEPT ![v] =
                                     IF shrink THEN new_capacity ELSE @]
                /\ size_' = [size_ EXCEPT ![v] = n]
    /\ UNCHANGED alive

\* void clear(): destroys the elements, size_ = 0
Clear(v) ==
    /\ alive[v]
    /\ heap' = Store(heap, data_[v], Filled(heap, data_[v], 0, capacity_[v]))
    /\ size_' = [size_ EXCEPT ![v] = 0]
    /\ UNCHANGED <<data_, capacity_, alive>>

\* ---------------------------------------------------- Vector specifications
\* What each member function does to a list, and a note of the call: a move,
\* a growing push_back / emplace_back, a shrinking pop_back, or another.
Track(op, v, other, x) ==
    /\ list' =
           CASE op \in {"push_back", "emplace_back"} ->
                    [list EXCEPT ![v] = Append(@, x)]
             [] op = "pop_back" ->
                    [list EXCEPT ![v] = IF @ = <<>> THEN @
                                        ELSE SubSeq(@, 1, Len(@) - 1)]
             [] op \in {"construct", "destroy", "clear"} ->
                    [list EXCEPT ![v] = <<>>]
             [] op \in {"copy_construct", "copy_assign"} ->
                    [list EXCEPT ![v] = list[other]]
             [] op \in {"move_construct", "move_assign"} ->
                    [[list EXCEPT ![other] = <<>>] EXCEPT ![v] = list[other]]
             [] op = "swap" ->
                    [list EXCEPT ![v] = list[other], ![other] = list[v]]
    /\ last' = IF op \in {"move_construct", "move_assign"} THEN op
               ELSE IF capacity_'[v] > capacity_[v] /\ alive[v] THEN "grown"
               ELSE IF capacity_'[v] < capacity_[v] /\ op = "pop_back"
               THEN "shrunk"
               ELSE "other"
    /\ UNCHANGED <<qvars, hvars, rvars, solo, instantiation, pvars, tvars,
                   uvars>>

\* Two Vector objects next to a queue of the smallest capacity the tests
\* instantiate.
InitVectorOnly == Init /\ Capacity = 2

\* The element appended to v: its position, marked with the Vector it is
\* appended to (Vector never looks into a T).
Element(v) == size_[v] + 1 + (IF v = "a" THEN 0 ELSE MaxSize)

NextVector ==
    \/ \E v \in Vectors, c \in 0 .. MaxInitialCapacity :
           ConstructWith(v, c) /\ Track("construct", v, v, Raw)
    \/ \E v \in Vectors : Destroy(v) /\ Track("destroy", v, v, Raw)
    \/ \E v, o \in Vectors :
           CopyConstruct(v, o) /\ Track("copy_construct", v, o, Raw)
    \/ \E v, o \in Vectors :
           MoveConstruct(v, o) /\ Track("move_construct", v, o, Raw)
    \/ \E v, o \in Vectors : CopyAssign(v, o) /\ Track("copy_assign", v, o, Raw)
    \/ \E v, o \in Vectors : MoveAssign(v, o) /\ Track("move_assign", v, o, Raw)
    \/ \E v, o \in Vectors : Swap(v, o) /\ Track("swap", v, o, Raw)
    \/ \E v \in Vectors :
           PushBack(v, Element(v)) /\ Track("push_back", v, v, Element(v))
    \/ \E v \in Vectors :
           EmplaceBack(v, Element(v))
           /\ Track("emplace_back", v, v, Element(v))
    \/ \E v \in Vectors : PopBack(v) /\ Track("pop_back", v, v, Raw)
    \/ \E v \in Vectors : Clear(v) /\ Track("clear", v, v, Raw)
SpecVector == InitVectorOnly /\ [][NextVector]_vars

\* data_[0] .. data_[size() - 1]
Elements(v) == [i \in 1 .. size_[v] |-> Cells(heap, data_[v])[i]]

\* C18: size() <= capacity() for every Vector, whatever ran last.
SizeWithinCapacity == \A v \in Vectors : size_[v] <= capacity_[v]

\* A pop_back has just shrunk a Vector that still holds elements, next to a
\* second Vector that was grown.
ShrunkNextToGrown ==
    /\ last = "shrunk"
    /\ \E v, w \in Vectors :
           /\ v # w
           /\ size_[v] >= 1 /\ size_[v] <= capacity_[v] \div 2
           /\ size_[w] > MaxInitialCapacity

\* C19: size() and the elements 0 .. size() - 1 of a Vector are those of the
\* list that was appended to and popped alongside it.
BehavesAsList ==
    \A v \in Vectors :
        alive[v] => size_[v] = Len(list[v]) /\ Elements(v) = list[v]

\* A shrink reallocation has just carried elements over to the new block.
ShrunkWithElements ==
    /\ last = "shrunk"
    /\ \E v \in Vectors :
           /\ Len(list[v]) >= 1 /\ capacity_[v] <= 2 * Len(list[v])
           /\ Elements(v) = list[v]

\* C20: a move construction, and a move assignment from another Vector, leave
\* the destination with the source's former size, capacity and block and the
\* source with size 0 and capacity 0; a self-move-assignment leaves size and
\* elements as they were.
MoveTransfers ==
    [][\A v, other \in Vectors :
          /\ (\/ MoveConstruct(v, other)
              \/ MoveAssign(v, other) /\ v # other) =>
                 /\ size_'[v] = size_[other]
                 /\ capacity_'[v] = capacity_[other]
                 /\ data_'[v] = data_[other]
                 /\ Elements(v)' = Elements(other)
                 /\ size_'[other] = 0
                 /\ capacity_'[other] = 0
          /\ MoveAssign(v, v) =>
                 /\ size_'[v] = size_[v]
                 /\ Elements(v)' = Elements(v)
      ]_vars

\* A move assignment has just replaced the elements of one Vector by the
\* elements of the other.
MovedOver ==
    /\ last = "move_assign"
    /\ \E v, other \in Vectors :
           /\ v # other
           /\ size_[v] >= 2 /\ Elements(v)[1] = Element(other) - size_[other]
           /\ alive[other] /\ size_[other] = 0 /\ capacity_[other] = 0

\* ------------------------------------------------------------ Vector copies
\* Two Vector<T> objects, T an int or a std::string.
InitCopy ==
    /\ InitQueue /\ Capacity = 2
    /\ InitHistory /\ InitReference /\ solo = 0 /\ InitPool
    /\ \E T \in ValueTypes : InitVectorOf(T)
    /\ InitUnique
SpecCopy == InitCopy /\ [][NextVector]_vars

\* C21: a copy construction, and a copy assignment from another Vector, give
\* the destination the source's size, capacity and elements in a block of
\* its own and leave the source as it was; a push_back, emplace_back or
\* pop_back on one Vector leaves the size and elements of the other alone.
DeepCopy ==
    [][\A v, other \in Vectors :
          /\ (\/ CopyConstruct(v, other)
              \/ CopyAssign(v, other) /\ v # other) =>
                 /\ size_'[v] = size_[other]
                 /\ capacity_'[v] = capacity_[other]
                 /\ Elements(v)' = Elements(other)
                 /\ size_[other] > 0 => data_'[v] # data_'[other]
                 /\ size_'[other] = size_[other]
                 /\ capacity_'[other] = capacity_[other]
                 /\ data_'[other] = data_[other]
                 /\ Elements(other)' = Elements(other)
          /\ (/\ v # other
              /\ ConstructAtEnd(v, Element(v)) \/ PopBack(v)) =>
                 /\ size_'[other] = size_[other]
                 /\ Elements(other)' = Elements(other)
      ]_vars

\* ------------------------------------------------------ UniquePtr operations
\* deleter_(p), reached only behind if (data_)
Deleter(d, p) == IF p = 0 THEN d ELSE [d EXCEPT ![p] = @ + 1]

\* The raw pointers the program can pass to u: nullptr, the result of a new
\* expression, a pointer it got back from release(), the pointer u.get()
\* returns.
RawPointers(u) ==
    {0, ptr_[u]}
    \cup {o \in Objects : object[o] = "client"}
    \cup {o \in Objects : /\ object[o] = "unallocated"
                          /\ \A n \in Objects :
                                 n < o => object[n] # "unallocated"}

\* The UniquePtr answers for the object behind p from now on.
Handed(p) == IF p = 0 THEN object ELSE [object EXCEPT ![p] = "managed"]

\* UniquePtr() / explicit UniquePtr(T *raw_ptr)
UniquePtrFrom(u, p) ==
    /\ ~living[u]
    /\ living' = [living EXCEPT ![u] = TRUE]
    /\ ptr_' = [ptr_ EXCEPT ![u] = p]
    /\ object' = Handed(p)
    /\ UNCHANGED <<header, deleted>>

\* ~UniquePtr(): if (data_) deleter_(data_);
UniquePtrDestroy(u) ==
    /\ living[u]
    /\ deleted' = Deleter(deleted, ptr_[u])
    /\ living' = [living EXCEPT ![u] = FALSE]
    /\ ptr_' = [ptr_ EXCEPT ![u] = 0]
    /\ UNCHANGED <<header, object>>

\* UniquePtr(UniquePtr &&other): takes other.data_, other.data_ = nullptr
UniquePtrMove(u, other) ==
    /\ ~living[u]
    /\ living[other]
    /\ living' = [living EXCEPT ![u] = TRUE]
    /\ ptr_' = [ptr_ EXCEPT ![u] = ptr_[other], ![other] = 0]
    /\ UNCHANGED <<header, object, deleted>>

\* What reset(p) does to a UniquePtr holding cur: the pointer it holds
\* afterwards and the pointer the deleter was invoked on (0: none). Only
\* unnamed/part_002 has the guard if (data_ == raw_ptr) return;
ResetOutcome(cur, p) ==
    IF header = "unnamed/part_002" /\ cur = p
    THEN [data |-> cur, del |-> 0]
    ELSE [data |-> p, del |-> cur]

\* A move assignment without the test this != &other.
MoveAssignUnchecked(u, other) ==
    /\ living[u]
    /\ living[other]
    /\ ptr_' = [[ptr_ EXCEPT ![u] = ptr_[other]] EXCEPT ![other] = 0]
    /\ deleted' = Deleter(deleted, ptr_[u])
    /\ UNCHANGED <<header, living, object>>

\* operator=(UniquePtr &&other): nothing when this == &other; otherwise
\* include/stl/unique_ptr.h deletes data_ and takes other.data_,
\* unnamed/part_002 does reset(other.release())
UniquePtrMoveAssign(u, other) ==
    /\ living[u]
    /\ living[other]
    /\ IF u = other
       THEN UNCHANGED <<ptr_, deleted>>
       ELSE LET r == IF header = "unnamed/part_002"
                     THEN ResetOutcome(ptr_[u], ptr_[other])
                     ELSE [data |-> ptr_[other], del |-> ptr_[u]]
            IN  /\ ptr_' = [ptr_ EXCEPT ![u] = r.data, ![other] = 0]
                /\ deleted' = Deleter(deleted, r.del)
    /\ UNCHANGED <<header, living, object>>

\* void reset(T *raw_ptr = nullptr)
Reset(u, p) ==
    /\ living[u]
    /\ LET r == ResetOutcome(ptr_[u], p)
       IN  /\ ptr_' = [ptr_ EXCEPT ![u] = r.data]
           /\ deleted' = Deleter(deleted, r.del)
    /\ object' = Handed(p)
    /\ UNCHANGED <<header, living>>

\* T *release(): the caller answers for the object again
Release(u) ==
    /\ living[u]
    /\ object' = IF ptr_[u] = 0 THEN object
                 ELSE [object EXCEPT ![ptr_[u]] = "client"]
    /\ ptr_' = [ptr_ EXCEPT ![u] = 0]
    /\ UNCHANGED <<header, living, deleted>>

\* void swap(UniquePtr &other), a member of unnamed/part_002 only
UniquePtrSwap(u, other) ==
    /\ header = "unnamed/part_002"
    /\ living[u]
    /\ living[other]
    /\ ptr_' = [ptr_ EXCEPT ![u] = ptr_[other], ![other] = ptr_[u]]
    /\ UNCHANGED <<header, living, object, deleted>>

\* ------------------------------------------------- UniquePtr specifications
\* A note of the call that ran, and nothing else of the program moves.
Called(name) ==
    /\ call' = name
    /\ UNCHANGED <<qvars, hvars, rvars, solo, instantiation, pvars, vvars,
                   lvars, tvars>>

\* Two UniquePtr objects built from either revision of the header.
InitUniqueOnly ==
    /\ InitQueue /\ Capacity = 2
    /\ InitHistory /\ InitReference /\ solo = 0 /\ InitPool /\ InitVector
    /\ \E h \in Headers : InitUniqueOf(h)

\* A delete of an object that was deleted before ends the run.
NextUnique ==
    /\ \A o \in Objects : deleted[o] <= 1
    /\ \/ \E u \in UniquePtrs : \E p \in RawPointers(u) :
              UniquePtrFrom(u, p) /\ Called("construct")
       \/ \E u \in UniquePtrs : UniquePtrDestroy(u) /\ Called("destroy")
       \/ \E u, o \in UniquePtrs :
              UniquePtrMove(u, o) /\ Called("move_construct")
       \/ \E u, o \in UniquePtrs :
              /\ UniquePtrMoveAssign(u, o)
              /\ Called(IF u = o THEN "self_move_assign" ELSE "move_assign")
       \/ \E u \in UniquePtrs : \E p \in RawPointers(u) :
              /\ Reset(u, p)
              /\ Called(IF p # 0 /\ p = ptr_[u] THEN "reset_same"
                        ELSE "reset")
       \/ \E u \in UniquePtrs : Release(u) /\ Called("release")
       \/ \E u, o \in UniquePtrs : UniquePtrSwap(u, o) /\ Called("swap")
SpecUnique == InitUniqueOnly /\ [][NextUnique]_vars

\* C22: no two UniquePtr objects hold the same non-null pointer; the deleter
\* is never invoked twice on an object and never on an object the program
\* got back from release(); an object handed to a UniquePtr has been deleted
\* once exactly when no UniquePtr holds it any more.
SingleOwnership ==
    /\ \A u, w \in UniquePtrs :
           u # w /\ ptr_[u] # 0 => ptr_[u] # ptr_[w]
    /\ \A o \in Objects :
           /\ deleted[o] <= 1
           /\ object[o] = "client" => deleted[o] = 0
           /\ object[o] = "managed" =>
                  (deleted[o] = 1 <=> \A u \in UniquePtrs : ptr_[u] # o)

\* C23: reset(p) on the UniquePtr that holds p invokes no deleter and leaves
\* it holding p, the object not deleted.
ResetSameKeeps ==
    [][\A u \in UniquePtrs :
          ptr_[u] # 0 /\ Reset(u, ptr_[u]) =>
              /\ deleted' = deleted
              /\ ptr_'[u] = ptr_[u]
              /\ deleted'[ptr_[u]] = 0
      ]_vars

\* C24: p2 = std::move(p1) invokes the deleter once, on the object p2 held,
\* and leaves p2 with p1's pointer and p1 with nullptr; p = std::move(p)
\* invokes no deleter and leaves p's pointer where it was.
MoveAssignTransfers ==
    [][\A u, other \in UniquePtrs :
          UniquePtrMoveAssign(u, other) =>
              IF u = other
              THEN deleted' = deleted /\ ptr_' = ptr_
              ELSE /\ \A o \in Objects :
                          deleted'[o] =
                              deleted[o] + (IF o = ptr_[u] THEN 1 ELSE 0)
                   /\ ptr_'[u] = ptr_[other]
                   /\ ptr_'[other] = 0
      ]_vars

\* A move assignment has just deleted the object its destination held and
\* handed over another one.
MoveAssignedOver ==
    /\ call = "move_assign"
    /\ \E u, other \in UniquePtrs :
           /\ u # other /\ ptr_[u] # 0 /\ ptr_[other] = 0
           /\ \E o \in Objects \ {ptr_[u]} :
                  object[o] = "managed" /\ deleted[o] = 1

\* ------------------------------------------------- the cells and the cursors
\* The value of the try_push that advanced enqueue_index_ from p to p + 1.
ValueAt(p) == claimed[p + 1]

\* Cell i holds a value that was published and that no try_pop has returned.
Holds(i) ==
    \E p \in 0 .. Len(claimed) - 1 :
        /\ CellOf(p) = i
        /\ ValueAt(p) \in Range(pushed)
        /\ ValueAt(p) \notin Range(popped)

\* Threads between winning the CAS of a cursor and returning.
Claiming(pcs) == Cardinality({t \in Threads : pc[t] \in pcs})

\* C25: the try_pop that took position p reads its cell when the cell's
\* sequence counter is p + 1 and no producer is writing it, and reads the
\* value of the try_push that took position p; no value is returned twice.
PositionPairing ==
    [][/\ \A t \in Threads :
              PopRead(t) =>
                  /\ seq[CellOf(current_pos[t])] = Wrap(current_pos[t] + 1)
                  /\ ~Races(t, CellOf(current_pos[t]))
                  /\ item'[t] = ValueAt(current_pos[t])
       /\ \A i, j \in DOMAIN popped' : i # j => popped'[i] # popped'[j]
      ]_vars

\* C26: no two threads are at the same time between winning a cursor CAS
\* and storing the sequence counter of the same cell.
ExclusiveCell ==
    \A t \in Threads :
        pc[t] \in OwnerPcs => ~Races(t, CellOf(current_pos[t]))

\* C27: before any call both cursors are 0 and cell i's counter is i; at
\* every state cell i's counter has the form i + k * Capacity or
\* i + k * Capacity + 1, never both, and it has the second form exactly
\* while the cell holds a published value or a try_pop is moving it out.
SequenceForms ==
    /\ calls = 0 =>
           /\ enqueue_index_ = 0 /\ dequeue_index_ = 0
           /\ \A i \in DOMAIN seq : seq[i] = i
    /\ \A i \in DOMAIN seq :
           LET empty == (seq[i] - i) % Capacity = 0
               full == (seq[i] - i - 1) % Capacity = 0
           IN  /\ empty \/ full
               /\ ~(empty /\ full)
               /\ full <=> \/ Holds(i)
                           \/ \E t \in Threads :
                                  /\ pc[t] = "pop_republish"
                                  /\ CellOf(current_pos[t]) = i

\* C28: a cell's sequence counter changes only in a publish, from p to p + 1
\* on a cell that holds nothing, and in a republish, from p + 1 to
\* p + Capacity on a cell that holds a value, which leaves the cell ready
\* for the try_push of position p + Capacity; it never decreases.
CellCycle ==
    [][\A t \in Threads :
          LET p == current_pos[t]
              i == CellOf(p)
          IN  /\ PushPublish(t) =>
                     /\ seq[i] = p /\ seq'[i] = p + 1
                     /\ ~Holds(i)
                     /\ \A k \in DOMAIN seq \ {i} : seq'[k] = seq[k]
              /\ PopRepublish(t) =>
                     /\ seq[i] = p + 1 /\ seq'[i] = p + Capacity
                     /\ seq'[i] > seq[i]
                     /\ SignedDiff(seq'[i], p + Capacity) = 0
                     /\ \A k \in DOMAIN seq \ {i} : seq'[k] = seq[k]
              /\ ~(\E u \in Threads : PushPublish(u) \/ PopRepublish(u)) =>
                     seq' = seq
      ]_vars

\* C29: each cursor stays or grows by one in a step, and counts the calls
\* that returned true plus the calls that have won its CAS and not returned
\* yet; with no call in flight enqueue_index_ is the number of try_push
\* calls that returned true and dequeue_index_ that of try_pop calls.
CursorMonotonic ==
    [][/\ enqueue_index_' \in {enqueue_index_, enqueue_index_ + 1}
       /\ dequeue_index_' \in {dequeue_index_, dequeue_index_ + 1}
       /\ enqueue_index_' =
              Len(pushed') + Claiming({"push_write", "push_publish"})'
       /\ dequeue_index_' =
              Len(popped') + Claiming({"pop_read", "pop_republish"})'
       /\ \A t \in Threads :
              (pc[t] # "idle" /\ pc'[t] = "idle" /\ ret'[t] = "false") =>
                  /\ enqueue_index_' = enqueue_index_
                  /\ dequeue_index_' = dequeue_index_
      ]_vars

\* Every call has returned, some of them false, after two try_push calls
\* and a try_pop returned true.
QuiescentAfterCalls ==
    /\ Quiescent
    /\ Len(pushed) >= 2 /\ Len(popped) >= 1
    /\ \E t \in Threads : ret[t] = "false"

\* C30: dequeue_index_ <= enqueue_index_, and the try_pop calls that have
\* claimed a position are no more than the try_push calls that have
\* published their cell.
PopsBehindPushes ==
    /\ dequeue_index_ <= enqueue_index_
    /\ dequeue_index_ <= Len(pushed)

\* A try_pop has claimed the only published value while a try_push is still
\* writing the next one.
PopCaughtUp ==
    /\ dequeue_index_ = Len(pushed) /\ dequeue_index_ >= 1
    /\ \E t \in Threads : pc[t] \in {"pop_read", "pop_republish"}
    /\ \E t \in Threads : pc[t] \in {"push_write", "push_publish"}

\* --------------------------------------------------------------------- C31
InPush(t) == pc[t] \in {"push_seq", "push_cas", "push_reload", "push_write",
                        "push_publish"}
InPop(t) == pc[t] \in {"pop_seq", "pop_cas", "pop_reload", "pop_read",
                       "pop_republish"}

\* The cells other than the one of thread t's cursor value keep their
\* sequence counter and their data.
OtherCellsKept(t) ==
    \A c \in DOMAIN seq :
        c # CellOf(current_pos[t]) => seq'[c] = seq[c] /\ data'[c] = data[c]

ReEnters(t) ==
    /\ pc[t] \in {"push_cas", "push_reload", "pop_cas", "pop_reload"}
    /\ pc'[t] \in {"push_seq", "pop_seq"}

\* C32: whenever a call re-enters its loop, the cursor value it goes on
\* with is strictly greater than the one of the iteration before.
RetriesAdvance ==
    [][\A t \in Threads : ReEnters(t) => current_pos'[t] > current_pos[t]]_vars

\* --------------------------------------------------------------------- C33
\* C33: at every cursor value, wrapped or not, the one thread's try_push
\* finds diff = 0 exactly when the bounded FIFO accepts the value and
\* diff < 0 exactly when it is full, its try_pop finds diff = 0 exactly when
\* the FIFO has a value and diff < 0 exactly when it is empty, and what the
\* call returns is what the FIFO returns.
ClassifiesAcrossWrap ==
    /\ pc[Main] = "push_seq" =>
          /\ PushDiff(current_pos[Main]) = 0 <=> refRet = "true"
          /\ PushDiff(current_pos[Main]) < 0 <=> refRet = "false"
    /\ pc[Main] = "pop_seq" =>
          /\ PopDiff(current_pos[Main]) = 0 <=> refRet = "true"
          /\ PopDiff(current_pos[Main]) < 0 <=> refRet = "false"
    /\ (pc[Main] = "idle" /\ ret[Main] # "none") =>
          /\ ret[Main] = refRet
          /\ refOut # NoValue => item[Main] = refOut

\* --------------------------------------------------------------------- C34
\* C34: a try_push that throws from the store of the value leaves
\* enqueue_index_ advanced and the sequence counters as they are; the
\* counter of a cell so abandoned at position p is never set to p + 1,
\* dequeue_index_ never passes p, every try_pop that loads the cell at
\* position p returns false and so does every try_push that loads it at
\* position p + Capacity.
AbandonedCell ==
    [][\A t \in Threads :
          pc'[t] # pc[t] =>
              /\ (pc[t] = "push_write" /\ ret'[t] = "threw") =>
                    /\ enqueue_index_' = enqueue_index_
                    /\ enqueue_index_ > current_pos[t]
                    /\ seq' = seq
              /\ \A p \in thrown :
                    /\ seq'[CellOf(p)] # p + 1
                    /\ dequeue_index_' <= p
                    /\ (pc[t] = "pop_seq" /\ current_pos[t] = p) =>
                          (pc'[t] = "idle" /\ ret'[t] = "false")
                    /\ (pc[t] = "push_seq" /\ current_pos[t] = p + Capacity) =>
                          (pc'[t] = "idle" /\ ret'[t] = "false")]_vars

\* After a try_push threw at position p, the values of the later positions
\* were published up to the cell of p again, none of them was popped, and
\* the call that then found the cell returned false.
AbandonedAndWrapped ==
    \E p \in thrown :
        /\ Capacity >= 2
        /\ pushed # <<>>
        /\ dequeue_index_ = p
        /\ enqueue_index_ = p + Capacity
        /\ \E t \in Threads : pc[t] = "idle" /\ ret[t] = "false"
        /\ Quiescent

\* --------------------------------------------------------------------- C35
\* The tasks taken so far, in the order they were taken.
Taken == [i \in DOMAIN dequeued |-> dequeued[i].task]

\* One worker has taken every task that was taken.
SingleWorker == \E w \in Workers : \A i \in DOMAIN dequeued : dequeued[i].worker = w

\* C35: the tasks are taken in the order submit_task queued them, those not
\* yet taken wait in task_queue_ in that order, and while one worker alone
\* takes the tasks each is finished before the next is taken, so that they
\* start and finish in the order they were queued.
DispatchInOrder ==
    /\ IsPrefix(Taken, accepted)
    /\ cpc[Owner] # "destroyed" =>
          task_queue_ = SubSeq(accepted, Len(Taken) + 1, Len(accepted))
    /\ SingleWorker =>
          /\ IsPrefix(finished, Taken)
          /\ Len(Taken) <= Len(finished) + 1

\* One worker alone has taken and finished every task, and the tasks were
\* not queued in the order their submit_task calls began.
AllByOneWorker ==
    /\ SingleWorker
    /\ Len(finished) = NTasks
    /\ finished = accepted
    /\ \E i \in DOMAIN accepted : accepted[i] # i

\* --------------------------------------------------------------------- C36
\* Worker w is executing a task.
Executing(w) == wpc[w] = "run"

\* C36: a worker that executes a task does not hold the mutex; whoever holds
\* it is a worker inside the locked block of worker(), which no task's
\* execution is part of, so a submit_task call waits for no task.
TasksRunUnlocked ==
    /\ \A w \in Workers : Executing(w) => mutex_ # w
    /\ mutex_ # 0 => wpc[mutex_] \in {"pred", "block", "check"}

\* Every worker is executing a task, and a submit_task call has meanwhile
\* queued another task and is about to notify.
AllWorkersExecuting ==
    /\ \A w \in Workers : Executing(w)
    /\ Unlocked
    /\ task_queue_ # <<>>
    /\ \E c \in Clients : cpc[c] = "notify" /\ Queued(ctask[c])

\* --------------------------------------------------------------------- C37
\* Vector v is appended to in this step.
Appends(v) == PushBack(v, Element(v)) \/ EmplaceBack(v, Element(v))

\* C37: push_back and emplace_back on a full Vector make the capacity 1 if
\* it was 0 and twice what it was otherwise, and keep it when there is room;
\* pop_back keeps it on an empty Vector and otherwise halves it exactly when
\* the new size is at most a quarter of it; clear() keeps it.
CapacityPolicy ==
    [][\A v \in Vectors :
          /\ Appends(v) =>
                capacity_'[v] = IF size_[v] < capacity_[v] THEN capacity_[v]
                                ELSE IF capacity_[v] = 0 THEN 1
                                ELSE 2 * capacity_[v]
          /\ PopBack(v) =>
                capacity_'[v] = IF size_[v] = 0 THEN capacity_[v]
                                ELSE IF size_[v] - 1 <= capacity_[v] \div 4
                                THEN capacity_[v] \div 2
                                ELSE capacity_[v]
          /\ Clear(v) => capacity_'[v] = capacity_[v]
          /\ (Appends(v) \/ PopBack(v) \/ Clear(v)) =>
                \A o \in Vectors \ {v} : capacity_'[o] = capacity_[o]
      ]_vars

\* One Vector has grown from nothing to capacity 4 by doubling and holds
\* three elements, the other has just been halved by pop_back.
DoubledNextToHalved ==
    \E v, o \in Vectors :
        /\ capacity_[v] = 4 /\ size_[v] = MaxSize
        /\ last = "shrunk"
        /\ capacity_[o] = 1 /\ size_[o] = 0

====
